---- MODULE Spec2Model ----
(***************************************************************************)
(* The CVE matching engine of pysec (pysec/cve_manager.py, CveManager):    *)
(* acquisition and caching of the NVD feeds, parsing of a feed into the    *)
(* package-keyed index cve_data, the dotted-numeric version comparison and *)
(* the query get_cves.                                                     *)
(*                                                                         *)
(* A Python str is a sequence of one-character strings, so that split(),   *)
(* lower(), isdigit() and int() are computed as Python computes them.      *)
(* Opaque texts that the code only copies (CVE ids, descriptions,          *)
(* severities) are plain strings.                                          *)
(***************************************************************************)
EXTENDS Integers, Sequences, FiniteSets, TLC

VARIABLES
    v1, v2,        \* arguments of the last _compare_versions call
    cmp,           \* its outcome
    feed,          \* the document _parse reads
    cve_data,      \* self.cve_data: package key -> list of records
    pc,            \* position of the CveManager
    query,         \* arguments of the last get_cves call
    result,        \* its outcome
    config_dir,    \* whether the cache directory exists
    fs,            \* the files of the cache directory: name -> content
    yi,            \* index in self.years of the year being acquired
    builds,        \* CveManager constructions started so far
    fetches,       \* per year, the urlretrieve calls made so far
    serializer,    \* a PackagesListSerializer: its data and its validation
    audit,         \* the package audit: its threshold and what it reports
    server,        \* the packages table and the last /api/packages exchange
    builders       \* the CveManager constructions that share one cache

-----------------------------------------------------------------------------
(* Bounds of the model *)

\* most dot-separated tokens in a version string handed to _compare_versions
MaxParts == 2
\* most entries in the cpe_match list of a generated feed entry
MaxMatches == 2
\* most entries in a feed made of several entries
MaxItems == 2
\* most CveManager constructions in one behaviour
MaxBuilds == 2

-----------------------------------------------------------------------------
(* Python str primitives *)

\* U+00B2 SUPERSCRIPT TWO: str.isdigit() is True for it, int() rejects it
Sup2 == "sup2"
\* U+0661 ARABIC-INDIC DIGIT ONE: a decimal digit, int() reads it as 1
Arabic1 == "arabic1"

DecimalValue ==
    [c \in {"0", "1", "2", "3", "4", "5", "6", "7", "8", "9", Arabic1} |->
        CASE c = "0" -> 0 [] c = "1" -> 1 [] c = "2" -> 2 [] c = "3" -> 3
          [] c = "4" -> 4 [] c = "5" -> 5 [] c = "6" -> 6 [] c = "7" -> 7
          [] c = "8" -> 8 [] c = "9" -> 9 [] c = Arabic1 -> 1]

\* characters with the Unicode property Numeric_Type=Decimal
DecimalChars == DOMAIN DecimalValue

\* characters with Numeric_Type=Digit or Decimal: what str.isdigit() accepts
DigitChars == DecimalChars \cup {Sup2}

\* str.split(sep): always at least one piece, empty pieces kept
Split(s, sep) ==
    LET at == { i \in 1..Len(s) : s[i] = sep }
        \* the position of the k-th separator; 0 and Len(s) + 1 close the ends
        cut(k) == IF k = 0 THEN 0
                  ELSE IF k > Cardinality(at) THEN Len(s) + 1
                  ELSE CHOOSE i \in at : Cardinality({ j \in at : j < i }) = k - 1
    IN  [k \in 1..(Cardinality(at) + 1) |-> SubSeq(s, cut(k - 1) + 1, cut(k) - 1)]

\* sep.join(parts)
RECURSIVE Join(_, _)
Join(parts, sep) ==
    IF parts = <<>> THEN <<>>
    ELSE IF Len(parts) = 1 THEN Head(parts)
    ELSE Head(parts) \o <<sep>> \o Join(Tail(parts), sep)

\* str.isdigit(): non-empty and every character is a digit character
IsDigit(part) ==
    /\ part # <<>>
    /\ \A i \in 1..Len(part) : part[i] \in DigitChars

\* int(part) succeeds exactly on decimal characters (signs, blanks and
\* underscores never reach it: isdigit() is False for them)
IntParses(part) ==
    /\ part # <<>>
    /\ \A i \in 1..Len(part) : part[i] \in DecimalChars

RECURSIVE IntValue(_)
IntValue(part) ==
    IF part = <<>> THEN 0
    ELSE IntValue(SubSeq(part, 1, Len(part) - 1)) * 10
         + DecimalValue[part[Len(part)]]

-----------------------------------------------------------------------------
(* Outcomes of a call: a returned value or a raised exception *)

Returned(x) == [exc |-> "none", val |-> x]
Raised(e, x) == [exc |-> e, val |-> x]

-----------------------------------------------------------------------------
(* CveManager._compare_versions *)

\* normalize(v): [int(part) for part in v.split(".") if part.isdigit()]
Normalize(v) ==
    LET kept == SelectSeq(Split(v, "."), IsDigit)
    IN  IF \E i \in 1..Len(kept) : ~IntParses(kept[i])
        THEN Raised("ValueError", <<>>)
        ELSE Returned([i \in 1..Len(kept) |-> IntValue(kept[i])])

Max(a, b) == IF a >= b THEN a ELSE b

\* parts += [0] * (length - len(parts))
Pad(parts, length) ==
    parts \o [i \in 1..(length - Len(parts)) |-> 0]

\* for a, b in zip(parts1, parts2): first unequal pair decides
RECURSIVE FirstDifference(_, _)
FirstDifference(parts1, parts2) ==
    IF parts1 = <<>> \/ parts2 = <<>> THEN 0
    ELSE IF Head(parts1) < Head(parts2) THEN -1
    ELSE IF Head(parts1) > Head(parts2) THEN 1
    ELSE FirstDifference(Tail(parts1), Tail(parts2))

CompareVersions(a, b) ==
    LET n1 == Normalize(a)
        n2 == Normalize(b)
    IN  IF n1.exc # "none" THEN Raised(n1.exc, 0)
        ELSE IF n2.exc # "none" THEN Raised(n2.exc, 0)
        ELSE LET length == Max(Len(n1.val), Len(n2.val))
             IN  Returned(FirstDifference(Pad(n1.val, length),
                                          Pad(n2.val, length)))

-----------------------------------------------------------------------------
(* JSON values of the feed: a dict is a function over its keys, a list a   *)
(* sequence; d.get(k, default) and the optional value of d.get(k)          *)

Get(d, k, default) == IF k \in DOMAIN d THEN d[k] ELSE default

None == [some |-> FALSE, v |-> <<>>]
Some(x) == [some |-> TRUE, v |-> x]
OptGet(d, k) == IF k \in DOMAIN d THEN Some(d[k]) ELSE None

\* truth value of an optional str: None and "" are falsy
Truthy(o) == o.some /\ o.v # <<>>

\* str.lower() on the letters the model uses
LowerChar(c) ==
    CASE c = "S" -> "s" [] c = "L" -> "l" [] c = "D" -> "d" [] c = "E" -> "e"
      [] c = "V" -> "v" [] OTHER -> c
Lower(s) == [i \in 1..Len(s) |-> LowerChar(s[i])]

\* cve_manager.py: CPE_LEN = 4
CPE_LEN == 4

\* the dict self.cve_data = defaultdict(list) right after __init__ made it
EmptyIndex == [k \in {} |-> <<>>]

\* AppendRecord that skips a record the key already holds
AppendRecordOnce(data, pkg, rec) ==
    [k \in (DOMAIN data) \cup {pkg} |->
        IF k = pkg
        THEN LET old == IF pkg \in DOMAIN data THEN data[pkg] ELSE <<>>
             IN  IF \E i \in 1..Len(old) : old[i] = rec THEN old
                 ELSE Append(old, rec)
        ELSE data[k]]

\* self.cve_data[pkg].append(rec): the key is created on a miss
AppendRecord(data, pkg, rec) ==
    [k \in (DOMAIN data) \cup {pkg} |->
        IF k = pkg
        THEN Append(IF pkg \in DOMAIN data THEN data[pkg] ELSE <<>>, rec)
        ELSE data[k]]

-----------------------------------------------------------------------------
(* CveManager._parse *)

\* Severity with the preference inverted: v2 consulted before v3
SeverityV2First(item) ==
    LET impact == Get(item, "impact", [none |-> TRUE])
    IN  IF "baseMetricV2" \in DOMAIN impact
        THEN Get(impact["baseMetricV2"], "severity", "UNKNOWN")
        ELSE IF "baseMetricV3" \in DOMAIN impact
        THEN Get(Get(impact["baseMetricV3"], "cvssV3", [none |-> TRUE]),
                 "baseSeverity", "UNKNOWN")
        ELSE "UNKNOWN"

\* lines 55-64: severity of a feed entry ({} is a dict without feed keys)
Severity(item) ==
    LET impact == Get(item, "impact", [none |-> TRUE])
    IN  IF "baseMetricV3" \in DOMAIN impact
        THEN Get(Get(impact["baseMetricV3"], "cvssV3", [none |-> TRUE]),
                 "baseSeverity", "UNKNOWN")
        ELSE IF "baseMetricV2" \in DOMAIN impact
        THEN Get(impact["baseMetricV2"], "severity", "UNKNOWN")
        ELSE "UNKNOWN"

\* ParseMatch with the length test and the index both one too low
ParseMatchOffByOne(data, cpe, cve_id, desc, severity) ==
    IF Get(cpe, "vulnerable", FALSE)
    THEN LET cpe_parts == Split(Get(cpe, "cpe23Uri", <<>>), ":")
         IN  IF Len(cpe_parts) > CPE_LEN - 1
             THEN AppendRecord(data, Lower(cpe_parts[CPE_LEN]),
                      [cve_id |-> cve_id, desc |-> desc, severity |-> severity,
                       version_start |-> OptGet(cpe, "versionStartIncluding"),
                       version_end |-> OptGet(cpe, "versionEndExcluding")])
             ELSE data
    ELSE data

\* ParseMatch that takes versionEndIncluding for the upper bound when
\* versionEndExcluding is missing
ParseMatchEndIncluding(data, cpe, cve_id, desc, severity) ==
    IF Get(cpe, "vulnerable", FALSE)
    THEN LET cpe_parts == Split(Get(cpe, "cpe23Uri", <<>>), ":")
         IN  IF Len(cpe_parts) > CPE_LEN
             THEN AppendRecord(data, Lower(cpe_parts[CPE_LEN + 1]),
                      [cve_id |-> cve_id, desc |-> desc, severity |-> severity,
                       version_start |-> OptGet(cpe, "versionStartIncluding"),
                       version_end |-> IF "versionEndExcluding" \in DOMAIN cpe
                                       THEN OptGet(cpe, "versionEndExcluding")
                                       ELSE OptGet(cpe, "versionEndIncluding")])
             ELSE data
    ELSE data

\* ParseMatch that wants more than 5 fields
ParseMatchMoreThanFive(data, cpe, cve_id, desc, severity) ==
    IF Get(cpe, "vulnerable", FALSE)
    THEN LET cpe_parts == Split(Get(cpe, "cpe23Uri", <<>>), ":")
         IN  IF Len(cpe_parts) > CPE_LEN + 1
             THEN AppendRecord(data, Lower(cpe_parts[CPE_LEN + 1]),
                      [cve_id |-> cve_id, desc |-> desc, severity |-> severity,
                       version_start |-> OptGet(cpe, "versionStartIncluding"),
                       version_end |-> OptGet(cpe, "versionEndExcluding")])
             ELSE data
    ELSE data

\* lines 68-76: one entry of a cpe_match list
ParseMatch(data, cpe, cve_id, desc, severity) ==
    IF Get(cpe, "vulnerable", FALSE)
    THEN LET cpe_parts == Split(Get(cpe, "cpe23Uri", <<>>), ":")
         IN  IF Len(cpe_parts) > CPE_LEN
             THEN AppendRecord(data, Lower(cpe_parts[CPE_LEN + 1]),
                      [cve_id |-> cve_id, desc |-> desc, severity |-> severity,
                       version_start |-> OptGet(cpe, "versionStartIncluding"),
                       version_end |-> OptGet(cpe, "versionEndExcluding")])
             ELSE data
    ELSE data

\* line 67: for cpe in node.get("cpe_match", [])
RECURSIVE ParseMatches(_, _, _, _, _)
ParseMatches(data, matches, cve_id, desc, severity) ==
    IF matches = <<>> THEN data
    ELSE ParseMatches(ParseMatch(data, Head(matches), cve_id, desc, severity),
                      Tail(matches), cve_id, desc, severity)

\* line 66: for node in item.get("configurations", {}).get("nodes", [])
RECURSIVE ParseNodes(_, _, _, _, _)
ParseNodes(data, nodes, cve_id, desc, severity) ==
    IF nodes = <<>> THEN data
    ELSE ParseNodes(ParseMatches(data, Get(Head(nodes), "cpe_match", <<>>),
                                 cve_id, desc, severity),
                    Tail(nodes), cve_id, desc, severity)

\* lines 50-51: the subscripts that raise on a missing key or an empty list
ItemError(item) ==
    IF "cve" \notin DOMAIN item THEN "KeyError"
    ELSE IF "CVE_data_meta" \notin DOMAIN item.cve THEN "KeyError"
    ELSE IF "ID" \notin DOMAIN item.cve.CVE_data_meta THEN "KeyError"
    ELSE IF "description" \notin DOMAIN item.cve THEN "KeyError"
    ELSE IF "description_data" \notin DOMAIN item.cve.description THEN "KeyError"
    ELSE IF item.cve.description.description_data = <<>> THEN "IndexError"
    ELSE IF "value" \notin DOMAIN item.cve.description.description_data[1]
    THEN "KeyError"
    ELSE "none"

\* lines 50-76: the body of the loop over CVE_Items
ParseItem(data, item) ==
    ParseNodes(data,
               Get(Get(item, "configurations", [none |-> TRUE]), "nodes", <<>>),
               item.cve.CVE_data_meta.ID,
               item.cve.description.description_data[1].value,
               Severity(item))

\* lines 49-76: the loop; an exception leaves the records appended so far
RECURSIVE ParseItems(_, _)
ParseItems(data, items) ==
    IF items = <<>> THEN Returned(data)
    ELSE IF ItemError(Head(items)) # "none"
    THEN Raised(ItemError(Head(items)), data)
    ELSE ParseItems(ParseItem(data, Head(items)), Tail(items))

\* _parse(path) on the document json.load returned
Parse(data, doc) == ParseItems(data, Get(doc, "CVE_Items", <<>>))

-----------------------------------------------------------------------------
(* CveManager.get_cves *)

\* line 112 / line 121: the triple handed back
Triple(rec) == <<rec.cve_id, rec.desc, rec.severity>>

\* BaseName without the truncation at the hyphen
BaseNameWhole(pkg) == Lower(pkg)

\* line 108: name = pkg.lower().split("-")[0]
BaseName(pkg) == Split(Lower(pkg), "-")[1]

\* Entries that looks up the base key only when it is another key
EntriesOncePerKey(data, pkg) ==
    IF BaseName(pkg) = Lower(pkg) THEN Get(data, Lower(pkg), <<>>)
    ELSE Get(data, Lower(pkg), <<>>) \o Get(data, BaseName(pkg), <<>>)

\* Entries with the name as the caller spelled it
EntriesAsSpelled(data, pkg) ==
    Get(data, pkg, <<>>) \o Get(data, Split(pkg, "-")[1], <<>>)

\* Entries with the two groups swapped
EntriesBaseFirst(data, pkg) ==
    Get(data, BaseName(pkg), <<>>) \o Get(data, Lower(pkg), <<>>)

\* line 109
Entries(data, pkg) ==
    Get(data, Lower(pkg), <<>>) \o Get(data, BaseName(pkg), <<>>)

\* Keeps with the bounds tested by `is not None`
KeepsIfNotNone(rec, version) ==
    LET lo == CompareVersions(version, rec.version_start.v)
        hi == CompareVersions(version, rec.version_end.v)
    IN  IF rec.version_start.some /\ lo.exc # "none" THEN FALSE
        ELSE IF rec.version_start.some /\ lo.val < 0 THEN FALSE
        ELSE IF rec.version_end.some /\ hi.exc # "none" THEN FALSE
        ELSE IF rec.version_end.some /\ hi.val >= 0 THEN FALSE
        ELSE TRUE

\* Keeps with an inclusive upper bound
KeepsInclusiveEnd(rec, version) ==
    LET lo == CompareVersions(version, rec.version_start.v)
        hi == CompareVersions(version, rec.version_end.v)
    IN  IF Truthy(rec.version_start) /\ lo.exc # "none" THEN FALSE
        ELSE IF Truthy(rec.version_start) /\ lo.val < 0 THEN FALSE
        ELSE IF Truthy(rec.version_end) /\ hi.exc # "none" THEN FALSE
        ELSE IF Truthy(rec.version_end) /\ hi.val > 0 THEN FALSE
        ELSE TRUE

\* lines 116-123: what the loop body does with one entry; an exception of
\* _compare_versions is caught and the entry skipped
Keeps(rec, version) ==
    LET lo == CompareVersions(version, rec.version_start.v)
        hi == CompareVersions(version, rec.version_end.v)
    IN  IF Truthy(rec.version_start) /\ lo.exc # "none" THEN FALSE
        ELSE IF Truthy(rec.version_start) /\ lo.val < 0 THEN FALSE
        ELSE IF Truthy(rec.version_end) /\ hi.exc # "none" THEN FALSE
        ELSE IF Truthy(rec.version_end) /\ hi.val >= 0 THEN FALSE
        ELSE TRUE

\* version is an optional str: None is get_cves(pkg) without a version
GetCves(data, pkg, version) ==
    LET entries == Entries(data, pkg)
    IN  IF ~version.some
        THEN [i \in 1..Len(entries) |-> Triple(entries[i])]
        ELSE LET kept == SelectSeq(entries, LAMBDA rec : Keeps(rec, version.v))
             IN  [i \in 1..Len(kept) |-> Triple(kept[i])]

\* the lookup of a key that is in the index or not: a subscript on the
\* defaultdict would add the key with an empty list
AfterSubscript(data, key) ==
    [k \in DOMAIN data \cup {key} |-> IF k \in DOMAIN data THEN data[k] ELSE <<>>]

\* self.cve_data.get(key, []) leaves the defaultdict as it is
AfterGet(data, key) ==
    data

\* GetCvesCall with the lookups as subscripts on a plain dict
GetCvesCallSubscript(data, pkg, version) ==
    IF Lower(pkg) \notin DOMAIN data \/ BaseName(pkg) \notin DOMAIN data
    THEN Raised("KeyError", <<>>)
    ELSE Returned(GetCves(data, pkg, version))

\* GetCvesCall without the try/except around the loop body
GetCvesCallUncaught(data, pkg, version) ==
    LET entries == Entries(data, pkg)
        raises(rec) ==
            LET lo == CompareVersions(version.v, rec.version_start.v)
                hi == CompareVersions(version.v, rec.version_end.v)
            IN  IF Truthy(rec.version_start) /\ lo.exc # "none" THEN TRUE
                ELSE IF Truthy(rec.version_start) /\ lo.val < 0 THEN FALSE
                ELSE Truthy(rec.version_end) /\ hi.exc # "none"
    IN  IF version.some /\ \E i \in 1..Len(entries) : raises(entries[i])
        THEN Raised("ValueError", <<>>)
        ELSE Returned(GetCves(data, pkg, version))

\* the call as its caller sees it: the lookups are .get with a default and
\* every exception of the loop body is caught, so the call returns
GetCvesCall(data, pkg, version) ==
    Returned(GetCves(data, pkg, version))

-----------------------------------------------------------------------------
(* Version strings given to the comparison *)

VersionTokens ==
    { <<>>, <<"0">>, <<"2">>, <<"1", "0">>, <<"r", "c">>, <<Sup2>>,
      <<Arabic1>> }

RECURSIVE TokenSeqs(_)
TokenSeqs(n) ==
    IF n = 0 THEN { <<>> }
    ELSE LET shorter == TokenSeqs(n - 1)
         IN  shorter \cup
             { ts \o <<t>> : ts \in { s \in shorter : Len(s) = n - 1 },
                             t \in VersionTokens }

VersionStrings == { Join(ts, ".") : ts \in TokenSeqs(MaxParts) }

NotCalled == Raised("not called", 0)

-----------------------------------------------------------------------------
(* Feed documents given to _parse *)

Ssl == <<"s", "s", "l">>
SslUpper == <<"S", "S", "L">>
SslDev == <<"s", "s", "l", "-", "d", "e", "v">>
SslDevMixed == <<"S", "s", "l", "-", "D", "e", "v">>
Zlib == <<"z", "l", "i", "b">>

V099 == <<"0", ".", "9", ".", "9">>
V100 == <<"1", ".", "0", ".", "0">>
V150 == <<"1", ".", "5", ".", "0">>
V200 == <<"2", ".", "0", ".", "0">>
VSup == <<"1", ".", Sup2>>

CpePrefix == << <<"c", "p", "e">>, <<"2", ".", "3">>, <<"a">>, <<"v">> >>
\* cpe:2.3:a:v:<product>:*  (six fields)
Cpe(product) == Join(CpePrefix \o <<product, <<"*">> >>, ":")
\* cpe:2.3:a:v:<product>    (five fields)
CpeFive(product) == Join(CpePrefix \o <<product>>, ":")
\* cpe:2.3:a:v              (four fields)
CpeFour == Join(CpePrefix, ":")

\* a vulnerable match entry with the optional bounds s and e
MatchEntry(uri, s, e) ==
    LET base == [vulnerable |-> TRUE, cpe23Uri |-> uri]
        ws == IF s.some THEN base @@ ("versionStartIncluding" :> s.v) ELSE base
    IN  IF e.some THEN ws @@ ("versionEndExcluding" :> e.v) ELSE ws

StartChoices == {None, Some(<<>>), Some(V100)}
EndChoices == {None, Some(<<>>), Some(V200)}

Matches ==
    { MatchEntry(Cpe(Ssl), s, e) : s \in StartChoices, e \in EndChoices }
    \cup { MatchEntry(Cpe(Ssl), Some(VSup), None),
           MatchEntry(Cpe(Ssl), None, Some(VSup)),
           MatchEntry(Cpe(SslDev), None, None),
           MatchEntry(Cpe(SslUpper), None, Some(V200)),
           MatchEntry(CpeFour, None, None),
           [vulnerable |-> TRUE, versionEndExcluding |-> V200],
           [vulnerable |-> FALSE, cpe23Uri |-> Cpe(Ssl)] }

RECURSIVE SeqsUpTo(_, _)
SeqsUpTo(S, n) ==
    IF n = 0 THEN { <<>> }
    ELSE LET shorter == SeqsUpTo(S, n - 1)
         IN  shorter \cup
             { q \o <<x>> : q \in { r \in shorter : Len(r) = n - 1 }, x \in S }

MatchLists == SeqsUpTo(Matches, MaxMatches)

\* the impact dict of a feed entry: each metric absent, present without
\* its severity field, or present with it
V3Choices ==
    { [exploitabilityScore |-> "3.9"],
      [cvssV3 |-> [version |-> "3.1"]],
      [cvssV3 |-> [baseSeverity |-> "HIGH"]],
      [cvssV3 |-> [baseSeverity |-> "LOW"]],
      [cvssV3 |-> [baseSeverity |-> "NONE"]] }
V2Choices ==
    { [exploitabilityScore |-> "8.6"],
      [severity |-> "MEDIUM"],
      [severity |-> "CRITICAL"] }
Impacts ==
    { [baseMetricV3 |-> m3, baseMetricV2 |-> m2] : m3 \in V3Choices, m2 \in V2Choices }
    \cup { [baseMetricV3 |-> m3] : m3 \in V3Choices }
    \cup { [baseMetricV2 |-> m2] : m2 \in V2Choices }

Cve(id, desc) ==
    [CVE_data_meta |-> [ID |-> id],
     description |-> [description_data |-> << [value |-> desc] >>]]

Item(id, desc, impact, matches) ==
    [cve |-> Cve(id, desc), impact |-> impact,
     configurations |-> [nodes |-> << [cpe_match |-> matches] >>]]

TwoMatches ==
    << MatchEntry(Cpe(SslUpper), Some(V100), Some(V200)),
       MatchEntry(Cpe(SslDev), None, None) >>

\* single feed entries: every impact with a fixed match list, every match
\* list with a fixed impact, and an entry without impact
RichItems ==
    { Item("CVE-1", "d1", imp, TwoMatches) : imp \in Impacts }
    \cup { Item("CVE-1", "d1", [baseMetricV3 |-> [cvssV3 |-> [baseSeverity |-> "HIGH"]]], ms) :
             ms \in MatchLists }
    \cup { [cve |-> Cve("CVE-1", "d1"),
            configurations |-> [nodes |-> << [cpe_match |-> TwoMatches] >>]] }

\* entries of the feeds with several entries: well-formed ones with
\* distinct ids, one without configurations, and malformed ones
ItemSsl ==
    Item("CVE-2", "d2", [baseMetricV2 |-> [severity |-> "MEDIUM"]],
         << MatchEntry(Cpe(Ssl), Some(V100), None) >>)
ItemThreeNodes ==
    [cve |-> Cve("CVE-3", "d3"),
     impact |-> [baseMetricV3 |-> [cvssV3 |-> [baseSeverity |-> "CRITICAL"]],
                 baseMetricV2 |-> [severity |-> "LOW"]],
     configurations |->
         [nodes |-> << [operator |-> "OR"],
                       [cpe_match |-> << MatchEntry(CpeFour, None, None),
                                         MatchEntry(Cpe(SslDev), None, Some(V150)) >>],
                       [cpe_match |-> << MatchEntry(CpeFive(Ssl), None, None),
                                         [cpe23Uri |-> Cpe(Ssl)] >>] >>]]
ItemNoConfigurations == [cve |-> Cve("CVE-4", "d4")]
ItemNoId ==
    [cve |-> [CVE_data_meta |-> [ASSIGNER |-> "a"],
              description |-> [description_data |-> << [value |-> "d5"] >>]],
     configurations |-> [nodes |-> << [cpe_match |-> TwoMatches] >>]]
ItemNoDescription ==
    [cve |-> [CVE_data_meta |-> [ID |-> "CVE-6"],
              description |-> [description_data |-> << >>]],
     configurations |-> [nodes |-> << [cpe_match |-> TwoMatches] >>]]

\* an entry whose match gives its range in the version field of the
\* cpe23Uri and in versionStartExcluding / versionEndIncluding
ItemOtherBounds ==
    [cve |-> Cve("CVE-7", "d7"),
     impact |-> [baseMetricV2 |-> [severity |-> "HIGH"]],
     configurations |->
         [nodes |-> << [cpe_match |->
             << [vulnerable |-> TRUE,
                 cpe23Uri |-> Join(CpePrefix \o <<Ssl, V150>>, ":"),
                 versionStartExcluding |-> V100,
                 versionEndIncluding |-> V150] >>] >>]]

BasicItems ==
    {ItemSsl, ItemThreeNodes, ItemNoConfigurations, ItemNoId, ItemNoDescription,
     ItemOtherBounds}

Docs ==
    { [CVE_Items |-> <<it>>] : it \in RichItems }
    \cup { [CVE_Items |-> its] : its \in SeqsUpTo(BasicItems, MaxItems) }
    \cup { [CVE_data_timestamp |-> "2024-01-01T00:00Z"] }

QueryNames == {Ssl, SslDev, SslDevMixed, Zlib}
QueryVersions ==
    {None, Some(<<>>), Some(V099), Some(V100), Some(V150), Some(V200), Some(VSup)}

NoQuery == [pkg |-> <<>>, version |-> None, called |-> FALSE]

-----------------------------------------------------------------------------
(* Specification of the index: _parse on one document, then get_cves *)

vars == <<v1, v2, cmp, feed, cve_data, pc, query, result,
          config_dir, fs, yi, builds, fetches, serializer,
          audit, server, builders>>

\* self.years = [2023, 2024, 2025]
Years == <<2023, 2024, 2025>>
YearSet == { Years[i] : i \in 1..Len(Years) }

NoFiles == [name \in {} |-> [complete |-> TRUE, doc |-> [CVE_Items |-> <<>>]]]

\* no PackagesListSerializer made
NoSerializer ==
    [data |-> <<>>, called |-> FALSE, valid |-> FALSE, errors |-> [none |-> TRUE]]

\* no audit run, no request served, no concurrent construction
NoAudit == [min_severity |-> "LOW", keep_severity |-> <<>>, cves |-> <<>>, done |-> FALSE]
NoServer ==
    [packages |-> [c \in {"c1", "c2"} |-> <<>>],
     request |-> [token |-> "c1", body |-> [json |-> FALSE]],
     response |-> [status |-> 0, error |-> ""]]
NoBuilders == [b \in {} |-> [pc |-> "init"]]
NoOthers ==
    /\ audit = NoAudit
    /\ server = NoServer
    /\ builders = NoBuilders

\* no cache directory, no construction started, no serializer
NoCache ==
    /\ config_dir = FALSE
    /\ fs = NoFiles
    /\ yi = 1
    /\ builds = 0
    /\ fetches = [y \in YearSet |-> 0]
    /\ serializer = NoSerializer
    /\ NoOthers

InitIndex ==
    /\ v1 = <<>>
    /\ v2 = <<>>
    /\ cmp = NotCalled
    /\ feed \in Docs
    /\ cve_data = EmptyIndex
    /\ pc = "parse"
    /\ query = NoQuery
    /\ result = NotCalled
    /\ NoCache

\* self._parse(path)
ParseFeed ==
    /\ pc = "parse"
    /\ LET r == Parse(cve_data, feed)
       IN  /\ cve_data' = r.val
           /\ pc' = IF r.exc = "none" THEN "ready" ELSE "raised"
    /\ UNCHANGED <<v1, v2, cmp, feed, query, result,
                   config_dir, fs, yi, builds, fetches, serializer,
                   audit, server, builders>>

\* self._parse(path) once more, on the document this CveManager has merged
ParseAgain ==
    /\ pc = "ready"
    /\ ~query.called
    /\ LET r == Parse(cve_data, feed)
       IN  /\ cve_data' = r.val
           /\ pc' = IF r.exc = "none" THEN "remerged" ELSE "raised"
    /\ UNCHANGED <<v1, v2, cmp, feed, query, result,
                   config_dir, fs, yi, builds, fetches, serializer,
                   audit, server, builders>>

\* Available with a constructor that swallows the exception of a year
AvailableAfterFailure == pc \in {"ready", "failed"}

\* the caller holds a CveManager only if the constructor returned
Available == pc = "ready"

\* cve_manager.get_cves(pkg, version)
Query ==
    /\ Available
    /\ \E pkg \in QueryNames, version \in QueryVersions :
          /\ query' = [pkg |-> pkg, version |-> version, called |-> TRUE]
          /\ result' = GetCvesCall(cve_data, pkg, version)
          /\ cve_data' = AfterGet(AfterGet(cve_data, Lower(pkg)), BaseName(pkg))
    /\ UNCHANGED <<v1, v2, cmp, feed, pc,
                   config_dir, fs, yi, builds, fetches, serializer,
                   audit, server, builders>>

\* each parsed document is queried once
NextIndex == ParseFeed \/ ParseAgain \/ (~query.called /\ Query)

SpecIndex == InitIndex /\ [][NextIndex]_vars

-----------------------------------------------------------------------------
(* Acquisition: CveManager.__init__, _load_or_download and _download *)

RECURSIVE Digits(_)
\* the decimal text of a natural number, as an f-string formats it
Digits(n) ==
    IF n < 10 THEN << CHOOSE c \in DecimalChars \ {Arabic1} : DecimalValue[c] = n >>
    ELSE Digits(n \div 10) \o Digits(n % 10)

FeedStem == <<"n", "v", "d", "c", "v", "e", "-", "1", ".", "1", "-">>

\* line 30: f"nvdcve-1.1-{year}.json", under config_dir
JsonPath(year) == FeedStem \o Digits(year) \o <<".", "j", "s", "o", "n">>
\* line 37: f"nvdcve-1.1-{year}.json.gz", under config_dir
GzPath(year) ==
    FeedStem \o Digits(year) \o <<".", "j", "s", "o", "n", ".", "g", "z">>
\* line 41: str(gz_path)[:-3]
DropLast3(path) == SubSeq(path, 1, Len(path) - 3)

\* PathExists answering that nothing is cached
PathExistsNever(path) == FALSE

\* line 31: path.exists()
PathExists(path) == path \in DOMAIN fs

WriteFile(files, name, content) ==
    [n \in (DOMAIN files) \cup {name} |-> IF n = name THEN content ELSE files[n]]

\* RemoveFile that leaves the file where it is
RemoveFileNot(files, name) ==
    files

\* line 44: Path(gz_path).unlink()
RemoveFile(files, name) ==
    [n \in (DOMAIN files) \ {name} |-> files[n]]

\* documents the upstream server may hold for a year
FeedSamples ==
    { [CVE_Items |-> <<ItemSsl>>],
      [CVE_Items |-> <<ItemThreeNodes, ItemSsl>>],
      [CVE_Items |-> <<ItemSsl, ItemNoId>>] }

Init ==
    /\ v1 = <<>>
    /\ v2 = <<>>
    /\ cmp = NotCalled
    /\ feed = [CVE_Items |-> <<>>]
    /\ cve_data = EmptyIndex
    /\ pc = "idle"
    /\ query = NoQuery
    /\ result = NotCalled
    /\ config_dir \in BOOLEAN
    /\ fs = NoFiles
    /\ yi = 1
    /\ builds = 0
    /\ fetches = [y \in YearSet |-> 0]
    /\ serializer = NoSerializer
    /\ NoOthers

\* lines 16-26: CveManager() up to the call of _load_or_download
Construct ==
    /\ pc \in {"idle", "ready", "failed"}
    /\ builds < MaxBuilds
    /\ builds' = builds + 1
    /\ config_dir' = TRUE
    /\ cve_data' = EmptyIndex
    /\ yi' = 1
    /\ pc' = "exists"
    /\ query' = NoQuery
    /\ result' = NotCalled
    /\ UNCHANGED <<v1, v2, cmp, feed, fs, fetches, serializer,
                   audit, server, builders>>

\* lines 29-32: the test that decides between the cache and a download
Exists ==
    /\ pc = "exists"
    /\ pc' = IF PathExists(JsonPath(Years[yi])) THEN "parse" ELSE "urlretrieve"
    /\ UNCHANGED <<v1, v2, cmp, feed, cve_data, query, result,
                   config_dir, fs, yi, builds, fetches, serializer,
                   audit, server, builders>>

\* OnAcquireError with a second attempt at the download
OnAcquireErrorRetry == "urlretrieve"

\* lines 28-44 have no try/except: an exception of urlretrieve, gzip.open
\* or copyfileobj leaves _download, _load_or_download and __init__
OnAcquireError == "failed"

\* lines 36-38: urlretrieve stores the body it got, whole or damaged, or
\* raises, leaving nothing or a truncated file
UrlRetrieve ==
    /\ pc = "urlretrieve"
    /\ fetches' = [fetches EXCEPT ![Years[yi]] = @ + 1]
    /\ \/ \E doc \in FeedSamples, whole \in BOOLEAN :
             /\ fs' = WriteFile(fs, GzPath(Years[yi]),
                                [complete |-> whole, doc |-> doc])
             /\ pc' = "gunzip"
       \/ /\ fs' = fs
          /\ pc' = OnAcquireError
       \/ \E doc \in FeedSamples :
             /\ fs' = WriteFile(fs, GzPath(Years[yi]),
                                [complete |-> FALSE, doc |-> doc])
             /\ pc' = OnAcquireError
    /\ UNCHANGED <<v1, v2, cmp, feed, cve_data, query, result,
                   config_dir, yi, builds, serializer,
                   audit, server, builders>>

\* lines 39-43: the output file is created, then filled; a damaged archive
\* raises and leaves the output incomplete
Gunzip ==
    /\ pc = "gunzip"
    /\ LET gz == fs[GzPath(Years[yi])]
       IN  /\ fs' = WriteFile(fs, DropLast3(GzPath(Years[yi])),
                              [complete |-> gz.complete, doc |-> gz.doc])
           /\ pc' = IF gz.complete THEN "unlink" ELSE OnAcquireError
    /\ UNCHANGED <<v1, v2, cmp, feed, cve_data, query, result,
                   config_dir, yi, builds, fetches, serializer,
                   audit, server, builders>>

\* line 44: Path(gz_path).unlink()
Unlink ==
    /\ pc = "unlink"
    /\ fs' = RemoveFile(fs, GzPath(Years[yi]))
    /\ pc' = "parse"
    /\ UNCHANGED <<v1, v2, cmp, feed, cve_data, query, result,
                   config_dir, yi, builds, fetches, serializer,
                   audit, server, builders>>

\* line 33 and lines 46-76: _parse(path) of the year, then the next year or
\* the end of the constructor; json.load raises on an incomplete document
ParseYear ==
    /\ pc = "parse"
    /\ LET file == fs[JsonPath(Years[yi])]
           r == Parse(cve_data, file.doc)
       IN  IF ~file.complete
           THEN /\ pc' = "failed"
                /\ UNCHANGED <<feed, cve_data, yi>>
           ELSE /\ feed' = file.doc
                /\ cve_data' = r.val
                /\ IF r.exc # "none"
                   THEN pc' = "failed" /\ yi' = yi
                   ELSE IF yi < Len(Years)
                   THEN pc' = "exists" /\ yi' = yi + 1
                   ELSE pc' = "ready" /\ yi' = yi
    /\ UNCHANGED <<v1, v2, cmp, query, result, config_dir, fs, builds, fetches, serializer,
                   audit, server, builders>>

Next ==
    \/ Construct
    \/ Exists
    \/ UrlRetrieve
    \/ Gunzip
    \/ Unlink
    \/ ParseYear
    \/ Query

Spec == Init /\ [][Next]_vars

-----------------------------------------------------------------------------
(* Specification of the comparison alone *)

InitCompare ==
    /\ v1 \in VersionStrings
    /\ v2 \in VersionStrings
    /\ cmp = NotCalled
    /\ feed = [CVE_Items |-> <<>>]
    /\ cve_data = EmptyIndex
    /\ pc = "compare"
    /\ query = NoQuery
    /\ result = NotCalled
    /\ NoCache

Compare ==
    /\ cmp = NotCalled
    /\ cmp' = CompareVersions(v1, v2)
    /\ UNCHANGED <<v1, v2, feed, cve_data, pc, query, result,
                   config_dir, fs, yi, builds, fetches, serializer,
                   audit, server, builders>>

NextCompare == Compare

SpecCompare == InitCompare /\ [][NextCompare]_vars

-----------------------------------------------------------------------------
(* PackagesListSerializer: the validation of a submitted package list *)

MaxPackages == 2

PackageKeys == {"name", "version", "package_repository"}

\* the dicts of non-blank strings that the DictField(child=CharField())
\* lets through, by the keys they carry
PackageDicts ==
    UNION { [ks -> {"x"}] : ks \in (SUBSET PackageKeys) \ {{}} }

\* the lists the ListField(allow_empty=True) lets through
PackageLists == SeqsUpTo(PackageDicts, MaxPackages)

\* validate_packages(self, value)
ValidatePackages(value) ==
    IF \E i \in 1..Len(value) :
          "name" \notin DOMAIN value[i] \/ "version" \notin DOMAIN value[i]
    THEN Raised("ValidationError",
                "Each package must have 'name' and 'version' fields")
    ELSE Returned("")

InitSerializer ==
    /\ v1 = <<>>
    /\ v2 = <<>>
    /\ cmp = NotCalled
    /\ feed = [CVE_Items |-> <<>>]
    /\ cve_data = EmptyIndex
    /\ pc = "idle"
    /\ query = NoQuery
    /\ result = NotCalled
    /\ config_dir = FALSE
    /\ fs = NoFiles
    /\ yi = 1
    /\ builds = 0
    /\ fetches = [y \in YearSet |-> 0]
    /\ \E data \in PackageLists :
          serializer = [data |-> data, called |-> FALSE, valid |-> FALSE,
                        errors |-> [none |-> TRUE]]
    /\ NoOthers

\* serializer.is_valid(): the field validation passes on these lists, then
\* validate_packages runs and its ValidationError goes to errors["packages"]
IsValid ==
    /\ ~serializer.called
    /\ LET r == ValidatePackages(serializer.data)
       IN  serializer' =
               [data |-> serializer.data,
                called |-> TRUE,
                valid |-> r.exc = "none",
                errors |-> IF r.exc = "none" THEN [none |-> TRUE]
                           ELSE [packages |-> <<r.val>>]]
    /\ UNCHANGED <<v1, v2, cmp, feed, cve_data, pc, query, result,
                   config_dir, fs, yi, builds, fetches,
                   audit, server, builders>>

NextSerializer == IsValid

SpecSerializer == InitSerializer /\ [][NextSerializer]_vars

-----------------------------------------------------------------------------
(* Vocabulary of the properties *)

Range(q) == { q[i] : i \in 1..Len(q) }

Triples(q) == [i \in 1..Len(q) |-> <<q[i].cve_id, q[i].desc, q[i].severity>>]

\* the text before the first hyphen
RECURSIVE BeforeHyphen(_)
BeforeHyphen(s) ==
    IF s = <<>> \/ Head(s) = "-" THEN <<>>
    ELSE <<Head(s)>> \o BeforeHyphen(Tail(s))

\* number of colon-delimited fields of a text
FieldCount(s) == 1 + Cardinality({ i \in 1..Len(s) : s[i] = ":" })

FeedItems == Get(feed, "CVE_Items", <<>>)
NodesOf(item) == Get(Get(item, "configurations", [none |-> TRUE]), "nodes", <<>>)
MatchesOf(node) == Get(node, "cpe_match", <<>>)

\* positions <<entry, node, match>> of the match entries of the feed
MatchPositions ==
    UNION { UNION { { <<a, b, c>> : c \in 1..Len(MatchesOf(NodesOf(FeedItems[a])[b])) } :
                    b \in 1..Len(NodesOf(FeedItems[a])) } :
            a \in 1..Len(FeedItems) }
MatchAt(p) == MatchesOf(NodesOf(FeedItems[p[1]])[p[2]])[p[3]]

IsVulnerable(m) == "vulnerable" \in DOMAIN m /\ m.vulnerable
ShortCpe(m) == "cpe23Uri" \notin DOMAIN m \/ FieldCount(m.cpe23Uri) < 5

\* positions <<key, index>> of the records of the index
RecordPositions ==
    UNION { { <<k, i>> : i \in 1..Len(cve_data[k]) } : k \in DOMAIN cve_data }

AllWellFormed == \A a \in 1..Len(FeedItems) : ItemError(FeedItems[a]) = "none"

HasV3Severity(item) ==
    /\ "impact" \in DOMAIN item
    /\ "baseMetricV3" \in DOMAIN item.impact
    /\ "cvssV3" \in DOMAIN item.impact.baseMetricV3
    /\ "baseSeverity" \in DOMAIN item.impact.baseMetricV3.cvssV3
HasV2Severity(item) ==
    /\ "impact" \in DOMAIN item
    /\ "baseMetricV2" \in DOMAIN item.impact
    /\ "severity" \in DOMAIN item.impact.baseMetricV2

\* the records of the index that the feed entry with this id produced
RecordsOf(item) ==
    { p \in RecordPositions : cve_data[p[1]][p[2]].cve_id = item.cve.CVE_data_meta.ID }

\* an inequality on a comparison holds only if the comparison returned
AtLeastZero(r) == r.exc = "none" /\ r.val >= 0
BelowZero(r) == r.exc = "none" /\ r.val < 0

Versioned == query.called /\ query.version.some
Unversioned == query.called /\ ~query.version.some

-----------------------------------------------------------------------------
(* C1 *)

\* the range test with "absent" read as: the match entry carried no bound
InRangeIfCarried(rec, v) ==
    /\ ~rec.version_start.some \/ AtLeastZero(CompareVersions(v, rec.version_start.v))
    /\ ~rec.version_end.some \/ BelowZero(CompareVersions(v, rec.version_end.v))

\* the range test with "absent" read as: no bound, or the empty string
InRangeIfNonEmpty(rec, v) ==
    /\ \/ ~rec.version_start.some
       \/ rec.version_start.v = <<>>
       \/ AtLeastZero(CompareVersions(v, rec.version_start.v))
    /\ \/ ~rec.version_end.some
       \/ rec.version_end.v = <<>>
       \/ BelowZero(CompareVersions(v, rec.version_end.v))

\* C1 as stated: a versioned get_cves returns exactly the candidate records
\* (those under the full key and the base key) for which version_start is
\* absent or compare(v, start) >= 0, and version_end is absent or
\* compare(v, end) < 0, a bound being absent only when the match entry did
\* not carry it.
C1_RangeTestAsStated ==
    Versioned =>
        result.val = Triples(SelectSeq(Entries(cve_data, query.pkg),
                         LAMBDA rec : InRangeIfCarried(rec, query.version.v)))

\* C1 amended: a versioned get_cves returns exactly the candidate records
\* whose lower bound is absent or empty or not above the version
\* (inclusive) and whose upper bound is absent or empty or above the
\* version (exclusive); a comparison that raises satisfies neither test.
C1_RangeTest ==
    Versioned =>
        result.val = Triples(SelectSeq(Entries(cve_data, query.pkg),
                         LAMBDA rec : InRangeIfNonEmpty(rec, query.version.v)))

\* the bounds 1.0.0 / 2.0.0 are stored under the queried key; the inclusive
\* lower bound 1.0.0 is queried and the record is returned
C1_Witness ==
    /\ Versioned
    /\ query.pkg = Ssl
    /\ query.version.v = V100
    /\ Ssl \in DOMAIN cve_data
    /\ \E i \in 1..Len(cve_data[Ssl]) :
          /\ cve_data[Ssl][i].version_start = Some(V100)
          /\ cve_data[Ssl][i].version_end = Some(V200)
    /\ result.val # <<>>

-----------------------------------------------------------------------------
(* C6 *)

\* C6: an unversioned get_cves(name) returns every record stored under the
\* key that equals the lower-cased name cut at its first hyphen.
C6_BaseKeyFallback ==
    Unversioned =>
        \A k \in DOMAIN cve_data :
            k = BeforeHyphen(Lower(query.pkg)) =>
                Range(Triples(cve_data[k])) \subseteq Range(result.val)

\* a hyphenated, mixed-case name with nothing under its full name gets the
\* records of its base key
C6_Witness ==
    /\ Unversioned
    /\ query.pkg = SslDevMixed
    /\ SslDev \notin DOMAIN cve_data
    /\ Ssl \in DOMAIN cve_data
    /\ result.val # <<>>

-----------------------------------------------------------------------------
(* C7 *)

\* C7: an unversioned get_cves(name) is the records under the full
\* lower-cased name followed by the records under the base key, each as
\* the triple (cve_id, description, severity), in stored order.
C7_FullThenBase ==
    Unversioned =>
        result.val =
            Triples(Get(cve_data, Lower(query.pkg), <<>>))
            \o Triples(Get(cve_data, BeforeHyphen(Lower(query.pkg)), <<>>))

\* both groups are non-empty and differ, and the base group has two records
C7_Witness ==
    /\ Unversioned
    /\ query.pkg = SslDev
    /\ SslDev \in DOMAIN cve_data
    /\ Ssl \in DOMAIN cve_data
    /\ Len(cve_data[Ssl]) >= 2
    /\ Triples(cve_data[Ssl]) # Triples(cve_data[SslDev])
    /\ cve_data[Ssl][1].cve_id # cve_data[Ssl][2].cve_id

-----------------------------------------------------------------------------
(* C8 *)

\* C8: when every entry of the feed is well formed, _parse returns and the
\* index holds one record per vulnerable match entry that has a cpe23Uri of
\* at least 5 fields: an entry with fewer fields, or without cpe23Uri, adds
\* nothing and stops nothing.
C8_ShortCpeSkipped ==
    (pc \in {"ready", "raised"} /\ AllWellFormed) =>
        /\ pc = "ready"
        /\ Cardinality(RecordPositions) =
             Cardinality({ p \in MatchPositions :
                             IsVulnerable(MatchAt(p)) /\ ~ShortCpe(MatchAt(p)) })

\* a short vulnerable entry is followed, in the same list, by an entry that
\* produced a record
C8_Witness ==
    /\ pc = "ready"
    /\ \E p \in MatchPositions, q \in MatchPositions :
          /\ p[1] = q[1] /\ p[2] = q[2] /\ p[3] < q[3]
          /\ IsVulnerable(MatchAt(p)) /\ ShortCpe(MatchAt(p))
          /\ IsVulnerable(MatchAt(q)) /\ ~ShortCpe(MatchAt(q))
    /\ Cardinality(RecordPositions) = 1

-----------------------------------------------------------------------------
(* C9 *)

\* C9: every record produced by a feed entry that carries both
\* baseMetricV3.cvssV3.baseSeverity and baseMetricV2.severity has the v3
\* value as severity.
C9_V3Preferred ==
    pc = "ready" =>
        \A a \in 1..Len(FeedItems) :
            (HasV3Severity(FeedItems[a]) /\ HasV2Severity(FeedItems[a])) =>
                \A p \in RecordsOf(FeedItems[a]) :
                    cve_data[p[1]][p[2]].severity =
                        FeedItems[a].impact.baseMetricV3.cvssV3.baseSeverity

\* an entry with both metrics, of different values, produced two records
C9_Witness ==
    /\ pc = "ready"
    /\ \E a \in 1..Len(FeedItems) :
          /\ HasV3Severity(FeedItems[a]) /\ HasV2Severity(FeedItems[a])
          /\ FeedItems[a].impact.baseMetricV3.cvssV3.baseSeverity
               # FeedItems[a].impact.baseMetricV2.severity
          /\ Cardinality(RecordsOf(FeedItems[a])) >= 2

-----------------------------------------------------------------------------
(* C10 *)

\* C10 as stated: every record produced by a feed entry without the v3
\* base-severity field has the v2 severity if the entry carries one, and
\* UNKNOWN otherwise.
C10_V2Fallback ==
    pc = "ready" =>
        \A a \in 1..Len(FeedItems) :
            ~HasV3Severity(FeedItems[a]) =>
                \A p \in RecordsOf(FeedItems[a]) :
                    cve_data[p[1]][p[2]].severity =
                        IF HasV2Severity(FeedItems[a])
                        THEN FeedItems[a].impact.baseMetricV2.severity
                        ELSE "UNKNOWN"

-----------------------------------------------------------------------------
(* C2 *)

\* C2 as stated: every call of _compare_versions returns, and returns -1, 0
\* or 1.
C2_NeverRaises ==
    cmp # NotCalled => (cmp.exc = "none" /\ cmp.val \in {-1, 0, 1})

-----------------------------------------------------------------------------
(* C3 *)

\* a token that is a non-negative integer: one or more decimal digits
IsNaturalToken(t) == t # <<>> /\ \A i \in 1..Len(t) : t[i] \in DecimalChars

\* the integers of the dot-separated tokens that are non-negative integers
RefVector(v) ==
    LET kept == SelectSeq(Split(v, "."), IsNaturalToken)
    IN  [i \in 1..Len(kept) |-> IntValue(kept[i])]

RefAt(vec, i) == IF i <= Len(vec) THEN vec[i] ELSE 0

\* sign of the first unequal pair of the zero-padded vectors, else 0
RefCompare(a, b) ==
    LET x == RefVector(a)
        y == RefVector(b)
        differ == { i \in 1..Max(Len(x), Len(y)) : RefAt(x, i) # RefAt(y, i) }
    IN  IF differ = {} THEN 0
        ELSE LET first == CHOOSE i \in differ : \A j \in differ : i <= j
             IN  IF RefAt(x, first) < RefAt(y, first) THEN -1 ELSE 1

\* C3 as stated: _compare_versions(a, b) returns what the reference
\* comparison gives: non-integer tokens dropped, the shorter vector padded
\* with zeros, the sign of the first unequal pair.
C3_MatchesReference ==
    cmp # NotCalled => cmp = Returned(RefCompare(v1, v2))

-----------------------------------------------------------------------------
(* C4 *)

\* C4 as stated: compare(a, b) = -compare(b, a) for all version strings, and
\* compare(v, v) = 0.
C4_Antisymmetric ==
    cmp # NotCalled =>
        LET back == CompareVersions(v2, v1)
        IN  /\ cmp.exc = "none"
            /\ back.exc = "none"
            /\ cmp.val = -back.val
            /\ (v1 = v2 => cmp.val = 0)

-----------------------------------------------------------------------------
(* C5 *)

\* C5: a step makes a urlretrieve call for a year only when the document
\* nvdcve-1.1-<year>.json is not in the cache directory, and the test of
\* an acquisition that finds the document goes straight to parsing it,
\* with no file written and no call made.
C5_CachedYearNotFetched ==
    [][ /\ \A y \in YearSet :
             fetches'[y] > fetches[y] => JsonPath(y) \notin DOMAIN fs
        /\ (pc = "exists" /\ JsonPath(Years[yi]) \in DOMAIN fs) =>
             (pc' = "parse" /\ fs' = fs /\ fetches' = fetches) ]_vars

\* the second construction is about to parse a year that the first one
\* downloaded: one call was made for it in all
C5_Witness ==
    /\ builds = 2
    /\ pc = "parse"
    /\ fetches[Years[yi]] = 1
    /\ fs[JsonPath(Years[yi])].complete

-----------------------------------------------------------------------------
(* C11 *)

\* the match entries that belong to well-formed feed entries and are due a
\* record
DueMatches ==
    { p \in MatchPositions :
        /\ ItemError(FeedItems[p[1]]) = "none"
        /\ IsVulnerable(MatchAt(p))
        /\ ~ShortCpe(MatchAt(p)) }

\* C11: a feed entry without cve.CVE_data_meta.ID, without description, or
\* with an empty description_data is skipped on its own: _parse returns, and
\* every well-formed entry of the feed, those after the malformed one
\* included, has its records in the index.
C11_MalformedEntrySkipped ==
    pc \in {"ready", "raised"} =>
        /\ pc = "ready"
        /\ Cardinality(RecordPositions) = Cardinality(DueMatches)

-----------------------------------------------------------------------------
(* C12 *)

\* C12: merging a document that this CveManager has already merged does
\* not duplicate records: after the second _parse the sequence under every
\* key is the one the first _parse left.
C12_RemergeIdempotent ==
    pc = "remerged" =>
        /\ DOMAIN cve_data = DOMAIN Parse(EmptyIndex, feed).val
        /\ \A k \in DOMAIN cve_data :
              cve_data[k] = Parse(EmptyIndex, feed).val[k]

-----------------------------------------------------------------------------
(* C13 *)

\* C13: once the CveManager is constructed, a get_cves call, whatever came
\* before it, leaves cve_data as it was: the same keys, the same sequence
\* under each key, and no key added by a lookup that misses.
C13_QueryLeavesIndex ==
    [][(pc = "ready" /\ pc' = "ready") =>
          /\ DOMAIN cve_data' = DOMAIN cve_data
          /\ \A k \in DOMAIN cve_data : cve_data'[k] = cve_data[k]]_vars

\* a get_cves call on a constructed CveManager with a filled index, for a
\* name neither of whose keys is in the index
C13_Witness ==
    /\ pc = "ready"
    /\ builds > 0
    /\ query.called
    /\ query.pkg = Zlib
    /\ result = Returned(<<>>)
    /\ cve_data # EmptyIndex
    /\ Zlib \notin DOMAIN cve_data

-----------------------------------------------------------------------------
(* C14 *)

NoRecordUnder(k) == k \notin DOMAIN cve_data \/ cve_data[k] = <<>>

\* C14: get_cves for a name with no record under its full lower-cased name
\* and none under its base key returns the empty sequence and raises no
\* error, with a version or without.
C14_UnknownPackageEmpty ==
    (/\ query.called
     /\ NoRecordUnder(Lower(query.pkg))
     /\ NoRecordUnder(BeforeHyphen(Lower(query.pkg)))) =>
        /\ result.exc = "none"
        /\ result.val = <<>>

\* a versioned query for a name unknown to a filled index
C14_Witness ==
    /\ Versioned
    /\ query.version.v = V100
    /\ query.pkg = Zlib
    /\ cve_data # EmptyIndex
    /\ NoRecordUnder(Zlib)
    /\ result = Returned(<<>>)

-----------------------------------------------------------------------------
(* C15 *)

\* the range test of the record against the version raises: the comparison
\* with a non-empty lower bound raises, or that one passes (or there is
\* none) and the comparison with a non-empty upper bound raises
TestRaises(rec, v) ==
    LET lo == CompareVersions(v, rec.version_start.v)
        hi == CompareVersions(v, rec.version_end.v)
        has_lo == rec.version_start.some /\ rec.version_start.v # <<>>
        has_hi == rec.version_end.some /\ rec.version_end.v # <<>>
    IN  \/ has_lo /\ lo.exc # "none"
        \/ /\ has_lo => AtLeastZero(lo)
           /\ has_hi /\ hi.exc # "none"

\* the subsequence of q at the positions in keep
RECURSIVE Pick(_, _, _)
Pick(q, keep, i) ==
    IF i > Len(q) THEN <<>>
    ELSE (IF i \in keep THEN <<q[i]>> ELSE <<>>) \o Pick(q, keep, i + 1)

\* C15: in a versioned query get_cves does not raise; a candidate whose
\* range test raises is left out, and every other candidate is still
\* evaluated: the result is the candidates whose test neither raises nor
\* fails, in their stored order.
C15_RaisingRecordLeftOut ==
    Versioned =>
        LET cands == Entries(cve_data, query.pkg)
            v == query.version.v
            kept == { i \in 1..Len(cands) :
                        /\ ~TestRaises(cands[i], v)
                        /\ InRangeIfNonEmpty(cands[i], v) }
        IN  /\ result.exc = "none"
            /\ result.val = Triples(Pick(cands, kept, 1))

\* a candidate whose test raises stands before one that passes, and the
\* result holds the second without the first
C15_Witness ==
    /\ Versioned
    /\ LET cands == Entries(cve_data, query.pkg)
           v == query.version.v
       IN  \E i \in 1..Len(cands), j \in 1..Len(cands) :
              /\ i < j
              /\ TestRaises(cands[i], v)
              /\ ~TestRaises(cands[j], v)
              /\ InRangeIfNonEmpty(cands[j], v)
              /\ CompareVersions(v, v).exc = "none"
    /\ result.exc = "none"
    /\ result.val # <<>>
    /\ Len(result.val) < Len(Entries(cve_data, query.pkg))

-----------------------------------------------------------------------------
(* C16 *)

\* C16: a download or decompression failure for a year is fatal and is not
\* retried. No construction fetches a year more than once; a urlretrieve
\* or gunzip step that does not succeed ends the construction in failure
\* with the year and the index as they were; and from a failed
\* construction nothing is fetched or written, no later year is acquired
\* and no get_cves result is produced: the only step is a new construction.
C16_FailureFatal ==
    [][/\ \A y \in YearSet : fetches'[y] <= builds'
       /\ (pc = "urlretrieve" /\ pc' # "gunzip") =>
             (pc' = "failed" /\ yi' = yi /\ cve_data' = cve_data
                /\ fetches'[Years[yi]] = fetches[Years[yi]] + 1)
       /\ (pc = "gunzip" /\ pc' # "unlink") =>
             (pc' = "failed" /\ yi' = yi /\ cve_data' = cve_data
                /\ fetches' = fetches)
       /\ pc = "failed" =>
             /\ fetches' = fetches
             /\ fs' = fs
             /\ result' = NotCalled
             /\ ~query'.called
             /\ pc' \in {"failed", "exists"}
             /\ pc' = "exists" => builds' = builds + 1]_vars

\* the first construction failed in the download of its second year: that
\* year was fetched once, its document is not in the cache, the third year
\* was not fetched, and no query was answered from the partial index
C16_Witness ==
    /\ pc = "failed"
    /\ builds = 1
    /\ yi = 2
    /\ fetches[Years[2]] = 1
    /\ ~PathExists(JsonPath(Years[2]))
    /\ fetches[Years[3]] = 0
    /\ ~PathExists(JsonPath(Years[3]))
    /\ cve_data # EmptyIndex
    /\ result = NotCalled

-----------------------------------------------------------------------------
(* C17 *)

SeverityLevels == {"LOW", "MEDIUM", "HIGH", "CRITICAL", "UNKNOWN"}

\* C17: every record of the index, and every triple get_cves returns, has
\* a severity among LOW, MEDIUM, HIGH, CRITICAL and UNKNOWN, whatever
\* severity strings the feed holds.
C17_SeverityEnum ==
    /\ \A p \in RecordPositions :
          cve_data[p[1]][p[2]].severity \in SeverityLevels
    /\ query.called =>
          \A i \in 1..Len(result.val) : result.val[i][3] \in SeverityLevels

-----------------------------------------------------------------------------
(* C18 *)

\* the index that merging the cached documents of the first n years, in
\* the configured order, makes of the empty index
RECURSIVE MergedYears(_)
MergedYears(n) ==
    IF n = 0 THEN EmptyIndex
    ELSE CHOOSE data \in { Parse(before, fs[JsonPath(Years[n])].doc).val :
                             before \in {MergedYears(n - 1)} } : TRUE

\* C18: no query runs against a partially built mapping. Whenever get_cves
\* has been called on a CveManager, its constructor has returned: every
\* configured year has its complete document in the cache and the index is
\* the merge of all of them; a construction that failed answers no query.
C18_NoPartialIndex ==
    (query.called \/ result # NotCalled) =>
        /\ pc = "ready"
        /\ yi = Len(Years)
        /\ \A y \in YearSet :
              PathExists(JsonPath(y)) /\ fs[JsonPath(y)].complete
        /\ cve_data = MergedYears(Len(Years))

\* a query answered by the second construction, after the first one failed
\* in a download that the second one repeated
C18_Witness ==
    /\ query.called
    /\ builds = 2
    /\ \E y \in YearSet : fetches[y] = 2
    /\ result.exc = "none"
    /\ result.val # <<>>

-----------------------------------------------------------------------------
(* C19 *)

HasAllThree(pkg) == PackageKeys \subseteq DOMAIN pkg

\* C19: PackagesListSerializer accepts a package list exactly when every
\* package has the fields name, version and package_repository (the empty
\* list is accepted); otherwise is_valid() is false and errors["packages"]
\* says that each package must have 'name', 'version', and
\* 'package_repository' fields.
C19_ThreeFieldsRequired ==
    serializer.called =>
        LET all_three == \A i \in 1..Len(serializer.data) :
                            HasAllThree(serializer.data[i])
        IN  /\ serializer.valid <=> all_three
            /\ ~all_three =>
                  /\ "packages" \in DOMAIN serializer.errors
                  /\ \E i \in 1..Len(serializer.errors.packages) :
                        serializer.errors.packages[i] =
                          "Each package must have 'name', 'version', and 'package_repository' fields"

-----------------------------------------------------------------------------
(* C20 *)

\* the text after the n-th colon of s, and the text before the first one
RECURSIVE AfterColons(_, _)
AfterColons(s, n) ==
    IF n = 0 \/ s = <<>> THEN s
    ELSE AfterColons(Tail(s), IF Head(s) = ":" THEN n - 1 ELSE n)
RECURSIVE BeforeColon(_)
BeforeColon(s) ==
    IF s = <<>> \/ Head(s) = ":" THEN <<>>
    ELSE <<Head(s)>> \o BeforeColon(Tail(s))

\* the field at index 4 of a cpe23Uri, lower-cased
ProductKey(m) == Lower(BeforeColon(AfterColons(m.cpe23Uri, 4)))

\* the vulnerable match entries with a cpe23Uri of more than n fields
\* whose field at index 4 gives the key k
MatchesUnder(k, n) ==
    { p \in MatchPositions :
        /\ IsVulnerable(MatchAt(p))
        /\ "cpe23Uri" \in DOMAIN MatchAt(p)
        /\ FieldCount(MatchAt(p).cpe23Uri) > n
        /\ ProductKey(MatchAt(p)) = k }

\* the keys that the match entries of the feed can give
ProductKeys ==
    { ProductKey(MatchAt(p)) :
        p \in { q \in MatchPositions : "cpe23Uri" \in DOMAIN MatchAt(q) } }

\* the index holds, under each key, as many records as n says it must
RecordsPerKey(n) ==
    (pc = "ready" /\ AllWellFormed) =>
        \A k \in ProductKeys \cup DOMAIN cve_data :
            Len(Get(cve_data, k, <<>>)) = Cardinality(MatchesUnder(k, n))

\* C20 as stated: a vulnerable match entry yields a record if and only if
\* its cpe23Uri has more than 5 colon-delimited fields, stored under the
\* lower-cased field at index 4; 5 fields or fewer yield no record.
C20_MoreThanFiveFields ==
    RecordsPerKey(5)

\* C20 amended: a vulnerable match entry yields a record if and only if its
\* cpe23Uri has at least 5 colon-delimited fields (more than CPE_LEN = 4),
\* stored under the lower-cased field at index 4; 4 fields or fewer, or no
\* cpe23Uri, yield no record.
C20_AtLeastFiveFields ==
    RecordsPerKey(4)

\* a vulnerable entry with exactly 5 fields has its record under the key
\* that its last field gives
C20_Witness ==
    /\ pc = "ready"
    /\ AllWellFormed
    /\ \E p \in MatchPositions :
          /\ IsVulnerable(MatchAt(p))
          /\ "cpe23Uri" \in DOMAIN MatchAt(p)
          /\ FieldCount(MatchAt(p).cpe23Uri) = 5
          /\ MatchAt(p).cpe23Uri = CpeFive(Ssl)
    /\ Ssl \in DOMAIN cve_data
    /\ Cardinality(RecordPositions) = 2

-----------------------------------------------------------------------------
(* C21 *)

\* C21: the acquisition of a year that is not cached fetches, then
\* decompresses, then deletes. The fetch leaves the compressed file and no
\* document yet; the decompression, which only follows a fetch, leaves the
\* document beside the compressed file; the deletion, which only follows a
\* decompression, comes last and leaves the document nvdcve-1.1-<year>.json
\* in the cache directory without nvdcve-1.1-<year>.json.gz.
C21_FetchGunzipUnlink ==
    [][LET json == JsonPath(Years[yi])
           gz == GzPath(Years[yi])
       IN  /\ (pc = "urlretrieve" /\ pc' = "gunzip") =>
                 (gz \in DOMAIN fs' /\ json \notin DOMAIN fs')
           /\ pc' = "gunzip" => pc \in {"urlretrieve", "gunzip"}
           /\ (pc = "gunzip" /\ pc' = "unlink") =>
                 (gz \in DOMAIN fs' /\ json \in DOMAIN fs' /\ fs'[json].complete)
           /\ pc' = "unlink" => pc \in {"gunzip", "unlink"}
           /\ (pc = "unlink" /\ pc' # "unlink") =>
                 /\ pc' = "parse"
                 /\ yi' = yi
                 /\ json \in DOMAIN fs'
                 /\ fs'[json] = fs[json]
                 /\ gz \notin DOMAIN fs']_vars

\* the first construction has just acquired a year: one fetch was made,
\* the complete document is cached and the compressed file is gone
C21_Witness ==
    /\ builds = 1
    /\ pc = "parse"
    /\ yi = 2
    /\ fetches[Years[yi]] = 1
    /\ PathExists(JsonPath(Years[yi]))
    /\ fs[JsonPath(Years[yi])].complete
    /\ ~PathExists(GzPath(Years[yi]))

-----------------------------------------------------------------------------
(* C22 *)

\* the concatenation of a sequence of sequences
RECURSIVE Flat(_)
Flat(qs) == IF qs = <<>> THEN <<>> ELSE Head(qs) \o Flat(Tail(qs))

\* the record that a match entry of a feed entry is due
RecordOf(item, m) ==
    [cve_id |-> item.cve.CVE_data_meta.ID,
     desc |-> item.cve.description.description_data[1].value,
     severity |-> Severity(item),
     version_start |-> OptGet(m, "versionStartIncluding"),
     version_end |-> OptGet(m, "versionEndExcluding")]

\* the match entry is due a record under the key k
DueUnder(m, k) ==
    /\ IsVulnerable(m)
    /\ "cpe23Uri" \in DOMAIN m
    /\ FieldCount(m.cpe23Uri) >= 5
    /\ ProductKey(m) = k

\* the records due under k: of a node in match order, of a feed entry in
\* node order, of a document in entry order, of the cache in year order
NodeRecords(item, node, k) ==
    LET due == SelectSeq(MatchesOf(node), LAMBDA m : DueUnder(m, k))
    IN  [i \in 1..Len(due) |-> RecordOf(item, due[i])]
ItemRecords(item, k) ==
    Flat([j \in 1..Len(NodesOf(item)) |-> NodeRecords(item, NodesOf(item)[j], k)])
DocRecords(doc, k) ==
    LET items == Get(doc, "CVE_Items", <<>>)
    IN  Flat([i \in 1..Len(items) |-> ItemRecords(items[i], k)])
YearRecords(k) ==
    Flat([y \in 1..Len(Years) |-> DocRecords(fs[JsonPath(Years[y])].doc, k)])

\* the keys that the cached documents give
CachedKeys ==
    { k \in { Ssl, SslDev, Zlib, <<"v">>, <<"*">>, <<>> } : YearRecords(k) # <<>> }

-----------------------------------------------------------------------------
(* C23 *)

UpperCaseLetters ==
    {"A", "B", "C", "D", "E", "F", "G", "H", "I", "J", "K", "L", "M",
     "N", "O", "P", "Q", "R", "S", "T", "U", "V", "W", "X", "Y", "Z"}
IsLowerCase(s) == \A i \in 1..Len(s) : s[i] \notin UpperCaseLetters

\* C23: every key of the index is lower-case, and get_cves lower-cases the
\* name before it derives the two keys: the answer to get_cves(N, v) is the
\* answer to get_cves(lower(N), v), and it is made of the records under
\* lower(N) and under lower(N) cut at its first hyphen.
C23_KeysLowerCase ==
    /\ \A k \in DOMAIN cve_data : IsLowerCase(k)
    /\ query.called =>
          /\ result = GetCvesCall(cve_data, Lower(query.pkg), query.version)
          /\ IsLowerCase(Lower(query.pkg))
          /\ Unversioned =>
                result.val = Triples(Get(cve_data, Lower(query.pkg), <<>>)
                                     \o Get(cve_data, BeforeHyphen(Lower(query.pkg)), <<>>))

\* a product spelled in upper case in the feed is stored under its
\* lower-case key and found by a versioned query that spells the name in
\* mixed case
C23_Witness ==
    /\ Versioned
    /\ query.pkg = SslDevMixed
    /\ ~IsLowerCase(query.pkg)
    /\ \E p \in MatchPositions :
          /\ IsVulnerable(MatchAt(p))
          /\ "cpe23Uri" \in DOMAIN MatchAt(p)
          /\ MatchAt(p).cpe23Uri = Cpe(SslUpper)
    /\ Ssl \in DOMAIN cve_data
    /\ result.exc = "none"
    /\ result.val # <<>>

-----------------------------------------------------------------------------
(* C25 *)

\* C25: after an acquisition that failed, in the download or in the
\* decompression, no file stands at the path nvdcve-1.1-<year>.json: the
\* cache holds no partial or empty document that the next construction
\* would take for a cached year instead of downloading it again.
C25_FailedYearNotCached ==
    pc = "failed" =>
        \A y \in YearSet :
            PathExists(JsonPath(y)) => fs[JsonPath(y)].complete

-----------------------------------------------------------------------------
(* C26 *)

HasHyphen(s) == \E i \in 1..Len(s) : s[i] = "-"

\* the records under the key k that the query keeps: all of them without a
\* version, those that pass the range test with one
KeptUnder(k) ==
    LET recs == Get(cve_data, k, <<>>)
    IN  IF Unversioned THEN recs
        ELSE SelectSeq(recs, LAMBDA rec : InRangeIfNonEmpty(rec, query.version.v))

\* C26: for a name without a hyphen the full key and the base key are one
\* key and get_cves returns the matching records of that key twice, the
\* whole group and then the whole group again, with a version or without;
\* for a name with a hyphen it returns the matching records of the full
\* key, then those of the base key, each once per key that holds it.
C26_TwiceWithoutHyphen ==
    query.called =>
        LET full == Lower(query.pkg)
            base == BeforeHyphen(full)
        IN  IF HasHyphen(query.pkg)
            THEN /\ base # full
                 /\ result.val = Triples(KeptUnder(full)) \o Triples(KeptUnder(base))
            ELSE /\ base = full
                 /\ result.val = Triples(KeptUnder(full)) \o Triples(KeptUnder(full))
                 /\ Len(result.val) = 2 * Len(KeptUnder(full))

\* a versioned query for a name without a hyphen: the key holds two
\* records, one passes, and the answer has it twice
C26_Witness ==
    /\ Versioned
    /\ query.pkg = Ssl
    /\ Ssl \in DOMAIN cve_data
    /\ Len(cve_data[Ssl]) = 2
    /\ Len(KeptUnder(Ssl)) = 1
    /\ Len(result.val) = 2
    /\ result.val[1] = result.val[2]

-----------------------------------------------------------------------------
(* C27 *)

EmptyEnd(rec) == rec.version_end = Some(<<>>)
EmptyStart(rec) == rec.version_start = Some(<<>>)
NoEnd(rec) == ~rec.version_end.some \/ rec.version_end.v = <<>>

\* the lower-bound test alone, an empty lower bound passing
LowerBoundPasses(rec, v) ==
    \/ ~rec.version_start.some
    \/ rec.version_start.v = <<>>
    \/ AtLeastZero(CompareVersions(v, rec.version_start.v))

\* every candidate record of the query satisfies P
AllCandidates(P(_)) ==
    LET cands == Entries(cve_data, query.pkg)
    IN  cands # <<>> /\ \A i \in 1..Len(cands) : P(cands[i])

\* C27 as stated: a bound is absent only when the match entry did not carry
\* it. A record whose version_end is the empty string is tested with
\* compare(version, "") < 0, which never holds, so a versioned query whose
\* candidates all have the empty version_end returns nothing; a record
\* whose version_start is the empty string passes the lower-bound test.
C27_EmptyEndNeverReturned ==
    Versioned =>
        /\ AllCandidates(EmptyEnd) => result.val = <<>>
        /\ AllCandidates(LAMBDA rec : EmptyStart(rec) /\ NoEnd(rec)) =>
              result.val = Triples(Entries(cve_data, query.pkg))

\* C27 amended: a bound that the match entry carried as the empty string
\* counts as absent. A versioned query whose candidates all have the empty
\* version_end returns those that pass the lower-bound test, whatever the
\* version; a record whose version_start is the empty string passes the
\* lower-bound test for every version.
C27_EmptyBoundIsAbsent ==
    Versioned =>
        /\ AllCandidates(EmptyEnd) =>
              result.val = Triples(SelectSeq(Entries(cve_data, query.pkg),
                               LAMBDA rec : LowerBoundPasses(rec, query.version.v)))
        /\ AllCandidates(LAMBDA rec : EmptyStart(rec) /\ NoEnd(rec)) =>
              result.val = Triples(Entries(cve_data, query.pkg))

\* the only records of the queried key have the empty string as upper
\* bound, and the query for version 2.0.0 returns them
C27_Witness ==
    /\ Versioned
    /\ query.version.v = V200
    /\ query.pkg = Ssl
    /\ AllCandidates(EmptyEnd)
    /\ \E i \in 1..Len(cve_data[Ssl]) : cve_data[Ssl][i].version_start = Some(V100)
    /\ result.val # <<>>
    /\ Len(result.val) = Len(Entries(cve_data, query.pkg))

-----------------------------------------------------------------------------
(* C28 *)

\* the match entry carries neither of the two bounds that _parse reads
CarriesNoBound(m) ==
    "versionStartIncluding" \notin DOMAIN m /\ "versionEndExcluding" \notin DOMAIN m

Unbounded(rec) == ~rec.version_start.some /\ ~rec.version_end.some

\* how often x stands in the sequence q
Count(q, x) == Cardinality({ i \in 1..Len(q) : q[i] = x })

\* C28: a vulnerable match entry that carries neither versionStartIncluding
\* nor versionEndExcluding has its record in the index with both bounds
\* absent, whatever the version field of its cpe23Uri and its fields
\* versionEndIncluding and versionStartExcluding say; and a versioned
\* query returns every candidate record without bounds, whatever the
\* version.
C28_NoBoundsAlwaysReturned ==
    /\ (pc = "ready" /\ AllWellFormed) =>
          \A p \in MatchPositions :
              LET m == MatchAt(p)
              IN  (IsVulnerable(m) /\ ~ShortCpe(m) /\ CarriesNoBound(m)) =>
                      /\ ProductKey(m) \in DOMAIN cve_data
                      /\ \E i \in 1..Len(cve_data[ProductKey(m)]) :
                            /\ cve_data[ProductKey(m)][i].cve_id =
                                   FeedItems[p[1]].cve.CVE_data_meta.ID
                            /\ Unbounded(cve_data[ProductKey(m)][i])
    /\ Versioned =>
          LET cands == Entries(cve_data, query.pkg)
              free == SelectSeq(cands, Unbounded)
          IN  \A i \in 1..Len(free) :
                  Count(result.val, Triple(free[i])) >= Count(Triples(free), Triple(free[i]))

\* the match gives 1.5.0 in its cpe23Uri and versionEndIncluding 1.5.0,
\* and the query for version 2.0.0 returns its record
C28_Witness ==
    /\ Versioned
    /\ query.pkg = Ssl
    /\ query.version.v = V200
    /\ \E p \in MatchPositions :
          /\ "versionEndIncluding" \in DOMAIN MatchAt(p)
          /\ "versionStartExcluding" \in DOMAIN MatchAt(p)
          /\ FieldCount(MatchAt(p).cpe23Uri) = 6
    /\ Len(FeedItems) = 1
    /\ Len(result.val) = 2
    /\ result.val[1][1] = "CVE-7"

-----------------------------------------------------------------------------
(* The package audit: get_keep_severity and the loop over the packages *)

\* the members of SeverityLevel, the type of min_severity
MinSeverities == {"LOW", "MEDIUM", "HIGH", "CRITICAL"}

\* get_keep_severity that reports records of unknown severity at LOW
GetKeepSeverityUnknown(min_severity) ==
    LET k0 == IF min_severity \in {"LOW"} THEN <<"UNKNOWN", "LOW">> ELSE <<>>
        k1 == IF min_severity \in {"LOW", "MEDIUM"} THEN Append(k0, "MEDIUM") ELSE k0
        k2 == IF min_severity \in {"LOW", "MEDIUM", "HIGH"} THEN Append(k1, "HIGH") ELSE k1
    IN  IF min_severity \in {"LOW", "MEDIUM", "HIGH", "CRITICAL"}
        THEN Append(k2, "CRITICAL") ELSE k2

\* get_keep_severity(min_severity): four tests, each appending one level
GetKeepSeverity(min_severity) ==
    LET k0 == IF min_severity \in {"LOW"} THEN <<"LOW">> ELSE <<>>
        k1 == IF min_severity \in {"LOW", "MEDIUM"} THEN Append(k0, "MEDIUM") ELSE k0
        k2 == IF min_severity \in {"LOW", "MEDIUM", "HIGH"} THEN Append(k1, "HIGH") ELSE k1
    IN  IF min_severity \in {"LOW", "MEDIUM", "HIGH", "CRITICAL"}
        THEN Append(k2, "CRITICAL") ELSE k2

\* the feed of an audit: one entry of every impact that matches every
\* version of ssl, and entries with bounds
AuditDocs ==
    { [CVE_Items |-> << Item("CVE-1", "d1", imp, << MatchEntry(Cpe(Ssl), None, None) >>),
                        ItemSsl, ItemThreeNodes, ItemOtherBounds >>] : imp \in Impacts }

\* the installed packages: name and version are strings
AuditNames == {Ssl, SslDev, Zlib}
AuditVersions == {V099, V100, V150, V200}

InitAudit ==
    /\ v1 = <<>>
    /\ v2 = <<>>
    /\ cmp = NotCalled
    /\ feed \in AuditDocs
    /\ cve_data = EmptyIndex
    /\ pc = "parse"
    /\ query = NoQuery
    /\ result = NotCalled
    /\ config_dir = FALSE
    /\ fs = NoFiles
    /\ yi = 1
    /\ builds = 0
    /\ fetches = [y \in YearSet |-> 0]
    /\ serializer = NoSerializer
    /\ \E min_severity \in MinSeverities :
          audit = [NoAudit EXCEPT !.min_severity = min_severity]
    /\ server = NoServer
    /\ builders = NoBuilders

\* lines 61-73 for one installed package: keep_severity, get_cves, and the
\* triples whose severity is in keep_severity
AuditPackage ==
    /\ Available
    /\ ~audit.done
    /\ \E pkg \in AuditNames, version \in AuditVersions :
          LET keep_severity == GetKeepSeverity(audit.min_severity)
              cves == GetCvesCall(cve_data, pkg, Some(version))
              kept(t) == \E i \in 1..Len(keep_severity) : keep_severity[i] = t[3]
          IN  /\ cves.exc = "none"
              /\ query' = [pkg |-> pkg, version |-> Some(version), called |-> TRUE]
              /\ result' = cves
              /\ cve_data' = AfterGet(AfterGet(cve_data, Lower(pkg)), BaseName(pkg))
              /\ audit' = [audit EXCEPT !.keep_severity = keep_severity,
                                        !.cves = SelectSeq(cves.val, kept),
                                        !.done = TRUE]
    /\ UNCHANGED <<v1, v2, cmp, feed, pc,
                   config_dir, fs, yi, builds, fetches, serializer,
                   server, builders>>

NextAudit == ParseFeed \/ AuditPackage

SpecAudit == InitAudit /\ [][NextAudit]_vars

-----------------------------------------------------------------------------
(* C29 *)

\* the position of a level in the order LOW, MEDIUM, HIGH, CRITICAL
Rank(level) ==
    CASE level = "LOW" -> 1
      [] level = "MEDIUM" -> 2
      [] level = "HIGH" -> 3
      [] level = "CRITICAL" -> 4

InKeep(t) == \E i \in 1..Len(audit.keep_severity) : audit.keep_severity[i] = t[3]

\* C29: get_keep_severity(min) is the list of the levels at or above min
\* in the order LOW, MEDIUM, HIGH, CRITICAL; the audit of a package keeps,
\* in order, exactly the triples of get_cves whose severity is in that
\* list; no triple of severity UNKNOWN is kept at any threshold.
C29_KeepAtOrAbove ==
    /\ \A min_severity \in MinSeverities :
          LET keep == GetKeepSeverity(min_severity)
          IN  /\ Len(keep) = 5 - Rank(min_severity)
              /\ \A i \in 1..Len(keep) :
                    /\ keep[i] \in MinSeverities
                    /\ Rank(keep[i]) = Rank(min_severity) + i - 1
    /\ audit.done =>
          /\ audit.keep_severity = GetKeepSeverity(audit.min_severity)
          /\ audit.cves = SelectSeq(result.val, InKeep)
          /\ \A i \in 1..Len(audit.cves) :
                /\ audit.cves[i][3] # "UNKNOWN"
                /\ audit.cves[i][3] \in MinSeverities
                /\ Rank(audit.cves[i][3]) >= Rank(audit.min_severity)

\* at the threshold LOW get_cves returns a triple of severity UNKNOWN next
\* to others, and the report holds the others only
C29_Witness ==
    /\ audit.done
    /\ audit.min_severity = "LOW"
    /\ \E i \in 1..Len(result.val) : result.val[i][3] = "UNKNOWN"
    /\ audit.cves # <<>>
    /\ Len(audit.cves) < Len(result.val)

-----------------------------------------------------------------------------
(* The server: POST /api/packages, APIView.dispatch and PackagesAPI.post *)

\* the clients of the clients table, named by their tokens, and a token
\* that no client has
Clients == {"c1", "c2"}
Tokens == Clients \cup {"bad"}

PkgA == [name |-> "a", version |-> "1"]
PkgB == [name |-> "b", version |-> "2"]
PkgNoName == [version |-> "1"]
PkgNoVersion == [name |-> "a"]

\* request bodies: text that is not JSON, an object without "packages",
\* and objects whose "packages" is a list of objects
Bodies ==
    { [json |-> FALSE], [json |-> TRUE, data |-> [hostname |-> "h"]] }
    \cup { [json |-> TRUE, data |-> [packages |-> l]] :
             l \in { <<>>, <<PkgA>>, <<PkgB>>, <<PkgA, PkgB>>, <<PkgNoName>>,
                     <<PkgA, PkgNoVersion>>, <<PkgNoName, PkgB>> } }

\* data.get("packages", [])
PackagesOf(data) == IF "packages" \in DOMAIN data THEN data.packages ELSE <<>>

\* lines 140-147: the Package objects of the list, or the KeyError of the
\* first subscript that fails, name before version
PackageObjects(packages) ==
    LET bad == { i \in 1..Len(packages) : {"name", "version"} \ DOMAIN packages[i] # {} }
        first == CHOOSE i \in bad : \A j \in bad : i <= j
    IN  IF bad = {}
        THEN Returned([i \in 1..Len(packages) |->
                          [name |-> packages[i].name, version |-> packages[i].version]])
        ELSE Raised("KeyError",
                    IF "name" \notin DOMAIN packages[first] THEN "name" ELSE "version")

InitServer ==
    /\ v1 = <<>>
    /\ v2 = <<>>
    /\ cmp = NotCalled
    /\ feed = [CVE_Items |-> <<>>]
    /\ cve_data = EmptyIndex
    /\ pc = "idle"
    /\ query = NoQuery
    /\ result = NotCalled
    /\ config_dir = FALSE
    /\ fs = NoFiles
    /\ yi = 1
    /\ builds = 0
    /\ fetches = [y \in YearSet |-> 0]
    /\ serializer = NoSerializer
    /\ audit = NoAudit
    /\ server = NoServer
    /\ builders = NoBuilders

\* one request: dispatch answers 401 for a token of no client; post
\* parses the body, deletes the packages of the client, builds the
\* Package objects, stores them and answers; JSONDecodeError and KeyError
\* are answered with 400 wherever they are raised
Post ==
    /\ \E token \in Tokens, body \in Bodies :
          LET request == [token |-> token, body |-> body]
              deleted == [server.packages EXCEPT ![token] = <<>>]
          IN  IF token \notin Clients
              THEN server' = [server EXCEPT !.request = request,
                                            !.response = [status |-> 401, error |-> "Invalid token"]]
              ELSE IF ~body.json
              THEN server' = [server EXCEPT !.request = request,
                                            !.response = [status |-> 400, error |-> "json"]]
              ELSE LET objects == PackageObjects(PackagesOf(body.data))
                   IN  IF objects.exc # "none"
                       THEN server' = [packages |-> deleted, request |-> request,
                                       response |-> [status |-> 400, error |-> objects.val]]
                       ELSE server' = [packages |-> [deleted EXCEPT ![token] = objects.val],
                                       request |-> request,
                                       response |-> [status |-> 200, error |-> ""]]
    /\ UNCHANGED <<v1, v2, cmp, feed, cve_data, pc, query, result,
                   config_dir, fs, yi, builds, fetches, serializer,
                   audit, builders>>

NextServer == Post

SpecServer == InitServer /\ [][NextServer]_vars

-----------------------------------------------------------------------------
(* C30 *)

\* C30: a submission answered with 400 leaves the packages stored for the
\* client as they were; after a submission answered with success the
\* packages stored for the client are the submitted list; the packages of
\* every other client are as they were in both cases.
C30_Rejected400Unchanged ==
    [][ LET c == server'.request.token
        IN  /\ server'.response.status = 400 =>
                  server'.packages[c] = server.packages[c]
            /\ server'.response.status = 200 =>
                  server'.packages[c] = PackagesOf(server'.request.body.data)
            /\ server'.response.status \in {200, 400} =>
                  \A d \in Clients \ {c} : server'.packages[d] = server.packages[d]
      ]_vars

\* the two parts of C30 that the code keeps: the success case and the
\* other clients
C30_SuccessAndOthers ==
    [][ LET c == server'.request.token
        IN  /\ server'.response.status = 200 =>
                  server'.packages[c] = PackagesOf(server'.request.body.data)
            /\ server'.response.status \in {200, 400} =>
                  \A d \in Clients \ {c} : server'.packages[d] = server.packages[d]
            /\ (server'.response.status = 400 /\ ~server'.request.body.json) =>
                  server'.packages[c] = server.packages[c]
      ]_vars

-----------------------------------------------------------------------------
(* Two constructions of CveManager on one cache directory, step by step *)

Builders == {"a", "b"}

\* the document the upstream server holds for every year; the transfers
\* themselves do not fail here
RaceDoc == [CVE_Items |-> <<ItemSsl>>]

\* open(path, "wb"): the file is created or truncated; writers are the
\* builders that hold it open, last the one that truncated it last
OpenWrite(files, path, b) ==
    WriteFile(files, path,
              [complete |-> FALSE, doc |-> RaceDoc,
               writers |-> (IF path \in DOMAIN files THEN files[path].writers ELSE {})
                               \cup {b},
               last |-> b])

\* the end of the writes of builder b, which wrote the whole content or
\* stopped early: nothing at the path changes if b's file was unlinked;
\* content that another builder truncated after b opened it may have
\* holes (lucky tells whether the other writer had passed them)
CloseWrite(files, path, b, whole, lucky) ==
    IF path \notin DOMAIN files THEN files
    ELSE IF b \notin files[path].writers THEN files
    ELSE LET f == files[path]
         IN  WriteFile(files, path,
                       [complete |-> f.complete \/ (whole /\ (f.last = b \/ lucky)),
                        doc |-> f.doc,
                        writers |-> f.writers \ {b},
                        last |-> f.last])

\* Copied where the document is parsed before the output is flushed
CopiedCut(files, path, b, whole, lucky) ==
    CloseWrite(files, path, b, FALSE, lucky)

\* lines 39-43: the with statement ends, f_out is flushed and closed
Copied(files, path, b, whole, lucky) ==
    CloseWrite(files, path, b, whole, lucky)

NewBuilder ==
    [pc |-> "init", yi |-> 1, cve_data |-> EmptyIndex, src |-> "none",
     partial |-> FALSE, wrote |-> {}]

InitRace ==
    /\ v1 = <<>>
    /\ v2 = <<>>
    /\ cmp = NotCalled
    /\ feed = [CVE_Items |-> <<>>]
    /\ cve_data = EmptyIndex
    /\ pc = "idle"
    /\ query = NoQuery
    /\ result = NotCalled
    /\ config_dir \in BOOLEAN
    /\ fs = NoFiles
    /\ yi = 1
    /\ builds = 0
    /\ fetches = [y \in YearSet |-> 0]
    /\ serializer = NoSerializer
    /\ audit = NoAudit
    /\ server = NoServer
    /\ builders = [b \in Builders |-> NewBuilder]

Year(b) == Years[builders[b].yi]

\* what a step of one builder leaves alone
OthersUnchanged ==
    UNCHANGED <<v1, v2, cmp, feed, cve_data, pc, query, result,
                yi, builds, serializer, audit, server>>

\* lines 17-18: the test for the cache directory
BuilderInit(b) ==
    /\ builders[b].pc = "init"
    /\ builders' = [builders EXCEPT ![b].pc = IF config_dir THEN "exists" ELSE "mkdir"]
    /\ UNCHANGED <<config_dir, fs, fetches>>
    /\ OthersUnchanged

\* line 19: mkdir raises FileExistsError if the directory was made since
BuilderMkdir(b) ==
    /\ builders[b].pc = "mkdir"
    /\ builders' = [builders EXCEPT ![b].pc = IF config_dir THEN "failed" ELSE "exists"]
    /\ config_dir' = TRUE
    /\ UNCHANGED <<fs, fetches>>
    /\ OthersUnchanged

\* lines 29-32: path.exists()
BuilderExists(b) ==
    /\ builders[b].pc = "exists"
    /\ builders' = [builders EXCEPT ![b].pc =
                        IF PathExists(JsonPath(Year(b))) THEN "parse" ELSE "urlretrieve"]
    /\ UNCHANGED <<config_dir, fs, fetches>>
    /\ OthersUnchanged

\* line 38: urlretrieve opens gz_path for writing
BuilderUrlOpen(b) ==
    /\ builders[b].pc = "urlretrieve"
    /\ fetches' = [fetches EXCEPT ![Year(b)] = @ + 1]
    /\ fs' = OpenWrite(fs, GzPath(Year(b)), b)
    /\ builders' = [builders EXCEPT ![b].pc = "retrieving"]
    /\ UNCHANGED config_dir
    /\ OthersUnchanged

\* line 38: urlretrieve has written the body and returns
BuilderUrlRetrieved(b) ==
    /\ builders[b].pc = "retrieving"
    /\ \E lucky \in BOOLEAN :
          fs' = CloseWrite(fs, GzPath(Year(b)), b, TRUE, lucky)
    /\ builders' = [builders EXCEPT ![b].pc = "gunzip"]
    /\ UNCHANGED <<config_dir, fetches>>
    /\ OthersUnchanged

\* lines 39-42: gzip.open raises FileNotFoundError if the archive is gone;
\* otherwise the output is opened for writing
BuilderGzipOpen(b) ==
    /\ builders[b].pc = "gunzip"
    /\ IF ~PathExists(GzPath(Year(b)))
       THEN /\ builders' = [builders EXCEPT ![b].pc = "failed"]
            /\ fs' = fs
       ELSE /\ builders' = [builders EXCEPT ![b].pc = "copy",
                                            ![b].src = "path",
                                            ![b].wrote = @ \cup {builders[b].yi}]
            /\ fs' = OpenWrite(fs, JsonPath(Year(b)), b)
    /\ UNCHANGED <<config_dir, fetches>>
    /\ OthersUnchanged

\* the archive that builder b reads is whole
SourceWhole(b) ==
    IF builders[b].src = "path" THEN fs[GzPath(Year(b))].complete
    ELSE builders[b].src = "whole"

\* line 43 and the end of the with statement: copyfileobj reads the
\* archive to its end, or raises on an archive that is cut
BuilderCopy(b) ==
    /\ builders[b].pc = "copy"
    /\ \E lucky \in BOOLEAN :
          fs' = Copied(fs, JsonPath(Year(b)), b, SourceWhole(b), lucky)
    /\ builders' = [builders EXCEPT ![b].pc = IF SourceWhole(b) THEN "unlink" ELSE "failed",
                                    ![b].src = "none"]
    /\ UNCHANGED <<config_dir, fetches>>
    /\ OthersUnchanged

\* line 44: unlink raises FileNotFoundError if the archive is gone; a
\* builder that still reads the archive keeps reading what it held
BuilderUnlink(b) ==
    /\ builders[b].pc = "unlink"
    /\ IF ~PathExists(GzPath(Year(b)))
       THEN /\ builders' = [builders EXCEPT ![b].pc = "failed"]
            /\ fs' = fs
       ELSE /\ builders' =
                  [c \in Builders |->
                      IF c = b THEN [builders[c] EXCEPT !.pc = "parse"]
                      ELSE IF /\ builders[c].pc = "copy"
                              /\ builders[c].yi = builders[b].yi
                              /\ builders[c].src = "path"
                      THEN [builders[c] EXCEPT !.src =
                                IF fs[GzPath(Year(b))].complete THEN "whole" ELSE "cut"]
                      ELSE builders[c]]
            /\ fs' = RemoveFile(fs, GzPath(Year(b)))
    /\ UNCHANGED <<config_dir, fetches>>
    /\ OthersUnchanged

\* line 33: _parse(path); json.load raises on a document that is not
\* written to its end
BuilderParse(b) ==
    /\ builders[b].pc = "parse"
    /\ LET file == fs[JsonPath(Year(b))]
           r == Parse(builders[b].cve_data, file.doc)
       IN  IF ~file.complete
           THEN builders' = [builders EXCEPT ![b].pc = "failed", ![b].partial = TRUE]
           ELSE builders' = [builders EXCEPT
                    ![b].cve_data = r.val,
                    ![b].pc = IF r.exc # "none" THEN "failed"
                              ELSE IF builders[b].yi < Len(Years) THEN "exists"
                              ELSE "ready",
                    ![b].yi = IF r.exc = "none" /\ builders[b].yi < Len(Years)
                              THEN @ + 1 ELSE @]
    /\ UNCHANGED <<config_dir, fs, fetches>>
    /\ OthersUnchanged

NextRace ==
    \E b \in Builders :
        \/ BuilderInit(b)
        \/ BuilderMkdir(b)
        \/ BuilderExists(b)
        \/ BuilderUrlOpen(b)
        \/ BuilderUrlRetrieved(b)
        \/ BuilderGzipOpen(b)
        \/ BuilderCopy(b)
        \/ BuilderUnlink(b)
        \/ BuilderParse(b)

SpecRace == InitRace /\ [][NextRace]_vars

-----------------------------------------------------------------------------
(* C24 *)

\* C24: two constructions on one cache directory, with transfers that do
\* not fail, can go wrong only through each other: a builder reads an
\* incomplete document only for a year whose document the other builder
\* has opened for writing, and a year is downloaded at most once per
\* builder; both interleavings of the claim are reachable (C24_Witness).
C24_RaceOnlyThroughOther ==
    /\ \A b \in Builders :
          builders[b].partial =>
              /\ builders[b].pc = "failed"
              /\ \E c \in Builders \ {b} : builders[b].yi \in builders[c].wrote
    /\ \A y \in YearSet : fetches[y] <= Cardinality(Builders)

\* both builders have downloaded 2023; then one of them found the document
\* of 2024 present, without having written it, and read it incomplete
\* while the other is still decompressing into it
C24_Witness ==
    /\ fetches[2023] = 2
    /\ fetches[2024] = 1
    /\ \E b \in Builders, c \in Builders :
          /\ b # c
          /\ builders[b].partial
          /\ builders[b].yi = 2
          /\ 2 \notin builders[b].wrote
          /\ builders[c].pc = "copy"
          /\ builders[c].yi = 2
          /\ ~fs[JsonPath(2024)].complete

====
